---- MODULE Spec2Model ----
(***************************************************************************)
(* Model of rff.py: the feature creators (FeatureCreatorPlaceholder,       *)
(* RandomFeatureCreator, OrthogonalRandomFeatureCreator) and RFFPipeline.  *)
(*                                                                         *)
(* Matrices are modelled by their shape and, for random matrices, by the   *)
(* position of the process-global numpy generator at which they were drawn *)
(* (a value drawn at another generator position is another value).  An     *)
(* exception is modelled by its Python type and the expression raising it. *)
(***************************************************************************)
EXTENDS Integers, Sequences, FiniteSets

\* ---------------------------------------------------------------- bounds
MaxFeatures == 2
MaxDim == 2
MaxCols == 2
MaxRng == 8

\* size=1000 of np.random.choice in both fit methods
SampleSize == 1000

\* Python's None, comparable with the records that model objects.
None == [type |-> "NoneType"]

Min(a, b) == IF a <= b THEN a ELSE b

Classes == {"FeatureCreatorPlaceholder", "RandomFeatureCreator",
            "OrthogonalRandomFeatureCreator"}

\* Row counts around the subsample size, and the empty dataset.
RowCounts == {0, SampleSize - 1, SampleSize, SampleSize + 1}

\* A data matrix X given to fit, by shape.
Matrices == [rows : RowCounts, cols : 1..MaxCols]

\* A data matrix X given to transform, predict or predict_proba, by shape; these
\* do not look at the subsample size, so one (non-zero) row count stands for all.
Queries == [rows : {SampleSize + 1}, cols : 1..MaxCols]

\* A label vector y for X (one label per row), by its number of distinct classes.
Labels(X) == IF X.rows = 0 THEN {0} ELSE {1, 2}

Raise(type, at) == [type |-> type, at |-> at]

VARIABLES
    args,       \* the arguments RFFPipeline was constructed with
    obj,        \* the RFFPipeline instance (with its feature creator and classifier)
    rng,        \* draws made from the global generator since np.random.seed(0)
    result,     \* the last call: operation, arguments, exception or return value
    last_fit,   \* history: None, or the use_PCA flag of the last completed RFFPipeline.fit
    creator_fit, \* history: whether fit of the feature creator was "never" called,
                 \* has only "raised", or has "returned" at least once
    before      \* history: the instance as it was when the last call began

vars == <<args, obj, rng, result, last_fit, creator_fit, before>>

\* ------------------------------------------------- process-global generator

\* np.random.choice(n, size=1000, replace=False) at generator position g.
choice(n, g) == [pop |-> n, at |-> g]

\* np.median(pdist(X[idx], "sqeuclidean")): a statistic of the multiset of pairwise
\* distances of the chosen rows.  When every row is chosen (n = 1000) the chosen
\* set, and so the median, does not depend on the generator.
median_pdist(X, idx) ==
    IF X.rows = SampleSize THEN [X |-> X, rows |-> "all"]
    ELSE [X |-> X, rows |-> idx]

\* np.random.normal(0, sqrt(1/(2*sigma)), (n, d)) at generator position g.
normal(sigma, n, d, g) == [rows |-> n, cols |-> d, sigma |-> sigma, at |-> g]

\* np.random.uniform(-pi, pi, size=(n,)) at generator position g.
uniform(n, g) == [len |-> n, at |-> g]

\* ------------------------------------------------------------ feature creators

\* FeatureCreatorPlaceholder.__init__ (inherited by both subclasses).
FeatureCreator_init(cls, n_features, new_dim) ==
    [cls |-> cls, n_features |-> n_features, new_dim |-> new_dim,
     w |-> None, b |-> None]

\* FeatureCreatorPlaceholder.fit: returns self.
Placeholder_fit(self, X, g) ==
    [self |-> self, rng |-> g, raise |-> None]

\* FeatureCreatorPlaceholder.transform: returns X.
Placeholder_transform(self, X) ==
    [self |-> self, raise |-> None, out |-> X]

\* RandomFeatureCreator.fit refusing a dataset of exactly the subsample size.
RandomFeatureCreator_fit_inclusive(self, X, g) ==
    IF X.rows <= SampleSize
    THEN [self |-> self, rng |-> g, raise |-> Raise("ValueError", "choice")]
    ELSE LET idx == choice(X.rows, g)
             sigma == median_pdist(X, idx)
             w == normal(sigma, self.n_features, self.new_dim, g + 1)
             b == uniform(self.n_features, g + 2)
         IN [self |-> [self EXCEPT !.w = w, !.b = b], rng |-> g + 3,
             raise |-> None]

\* RandomFeatureCreator.fit sizing w by the columns of X instead of new_dim.
RandomFeatureCreator_fit_cols(self, X, g) ==
    IF X.rows < SampleSize
    THEN [self |-> self, rng |-> g, raise |-> Raise("ValueError", "choice")]
    ELSE LET idx == choice(X.rows, g)
             sigma == median_pdist(X, idx)
             w == normal(sigma, self.n_features, X.cols, g + 1)
             b == uniform(self.n_features, g + 2)
         IN [self |-> [self EXCEPT !.w = w, !.b = b], rng |-> g + 3,
             raise |-> None]

\* RandomFeatureCreator.fit.
RandomFeatureCreator_fit(self, X, g) ==
    IF X.rows < SampleSize
    THEN [self |-> self, rng |-> g, raise |-> Raise("ValueError", "choice")]
    ELSE LET idx == choice(X.rows, g)
             sigma == median_pdist(X, idx)
             w == normal(sigma, self.n_features, self.new_dim, g + 1)
             b == uniform(self.n_features, g + 2)
         IN [self |-> [self EXCEPT !.w = w, !.b = b], rng |-> g + 3,
             raise |-> None]

\* RandomFeatureCreator.transform falling back to the placeholder's transform
\* while w is unset.
RandomFeatureCreator_transform_identity(self, X) ==
    IF self.w = None
    THEN [self |-> self, raise |-> None, out |-> X]
    ELSE IF X.cols # self.w.cols
    THEN [self |-> self, raise |-> Raise("ValueError", "matmul"), out |-> None]
    ELSE [self |-> self, raise |-> None,
          out |-> [rows |-> X.rows, cols |-> self.w.rows,
                   w |-> self.w, b |-> self.b]]

\* RandomFeatureCreator.transform keeping the transposed w on the instance.
RandomFeatureCreator_transform_store(self, X) ==
    IF self.w = None
    THEN [self |-> self, raise |-> Raise("AttributeError", "w.T"), out |-> None]
    ELSE IF X.cols # self.w.cols
    THEN [self |-> self, raise |-> Raise("ValueError", "matmul"), out |-> None]
    ELSE [self |-> [self EXCEPT !.w = [@ EXCEPT !.rows = self.w.cols,
                                                !.cols = self.w.rows]],
          raise |-> None,
          out |-> [rows |-> X.rows, cols |-> self.w.rows,
                   w |-> self.w, b |-> self.b]]

\* The product X @ self.w.T + self.b of RandomFeatureCreator.transform.
RandomFeatureCreator_transform(self, X) ==
    IF self.w = None
    THEN [self |-> self, raise |-> Raise("AttributeError", "w.T"), out |-> None]
    ELSE IF X.cols # self.w.cols
    THEN [self |-> self, raise |-> Raise("ValueError", "matmul"), out |-> None]
    ELSE [self |-> self, raise |-> None,
          out |-> [rows |-> X.rows, cols |-> self.w.rows,
                   w |-> self.w, b |-> self.b]]

\* OrthogonalRandomFeatureCreator.fit: Q of the reduced QR of the
\* (n_features x new_dim) matrix has min(n_features, new_dim) columns, S is
\* (new_dim x new_dim); Q @ S raises when the two disagree, after three draws.
OrthogonalRandomFeatureCreator_fit(self, X, g) ==
    IF X.rows < SampleSize
    THEN [self |-> self, rng |-> g, raise |-> Raise("ValueError", "choice")]
    ELSE LET idx == choice(X.rows, g)
             sigma == median_pdist(X, idx)
             w == normal(sigma, self.n_features, self.new_dim, g + 1)
             Qcols == Min(w.rows, w.cols)
             b == uniform(self.n_features, g + 3)
         IN IF Qcols # self.new_dim
            THEN [self |-> self, rng |-> g + 3,
                  raise |-> Raise("ValueError", "Q @ S")]
            ELSE [self |-> [self EXCEPT
                               !.w = [rows |-> w.rows, cols |-> self.new_dim,
                                      sigma |-> sigma, at |-> g + 1],
                               !.b = b],
                  rng |-> g + 4, raise |-> None]

\* Method dispatch on the creator's class.
FeatureCreator_fit(self, X, g) ==
    CASE self.cls = "FeatureCreatorPlaceholder" -> Placeholder_fit(self, X, g)
      [] self.cls = "RandomFeatureCreator" -> RandomFeatureCreator_fit(self, X, g)
      [] OTHER -> OrthogonalRandomFeatureCreator_fit(self, X, g)

FeatureCreator_transform(self, X) ==
    IF self.cls = "FeatureCreatorPlaceholder"
    THEN Placeholder_transform(self, X)
    ELSE RandomFeatureCreator_transform(self, X)

\* ------------------------------------------------- sklearn collaborators

\* PCA(n_components=n), unfitted: no feature count seen yet (0).
PCA_init(n) == [n_components |-> n, n_features_in |-> 0]

\* PCA.fit_transform(X): needs 1 <= n_components <= min(n_samples, n_features).
PCA_fit_transform(self, X) ==
    IF X.rows = 0 \/ self.n_components > Min(X.rows, X.cols)
    THEN [self |-> self, raise |-> Raise("ValueError", "PCA.fit"), out |-> None]
    ELSE [self |-> [self EXCEPT !.n_features_in = X.cols], raise |-> None,
          out |-> [rows |-> X.rows, cols |-> self.n_components]]

\* PCA.transform(X) of the Pipeline's fitted PCA.
PCA_transform(self, X) ==
    IF self.n_features_in = 0
    THEN [raise |-> Raise("NotFittedError", "PCA.transform"), out |-> None]
    ELSE IF X.rows = 0 \/ X.cols # self.n_features_in
    THEN [raise |-> Raise("ValueError", "PCA.transform"), out |-> None]
    ELSE [raise |-> None, out |-> [rows |-> X.rows, cols |-> self.n_components]]

\* classifier_class(**classifier_params), unfitted.
Classifier_init == [coef |-> None]

\* LogisticRegression.fit(Z, y): needs a sample and two classes in y.
Classifier_fit(self, Z, y) ==
    IF Z.rows = 0 \/ y < 2
    THEN [self |-> self, raise |-> Raise("ValueError", "classifier.fit")]
    ELSE [self |-> [self EXCEPT !.coef = [n_in |-> Z.cols]],
          raise |-> None]

\* LogisticRegression.predict / predict_proba (two classes).
Classifier_predict(self, Z, method) ==
    IF self.coef = None
    THEN [raise |-> Raise("NotFittedError", "classifier"), out |-> None]
    ELSE IF Z.rows = 0 \/ Z.cols # self.coef.n_in
    THEN [raise |-> Raise("ValueError", "classifier"), out |-> None]
    ELSE [raise |-> None,
          out |-> IF method = "predict" THEN [len |-> Z.rows]
                  ELSE [rows |-> Z.rows, cols |-> 2]]


\* Pipeline.fit, the PCA step: X becomes the reduced matrix.
pca_step(st, r) ==
    [st EXCEPT !.pca = r.self, !.X = r.out, !.raise = r.raise,
               !.ran = Append(@, "pca.fit_transform")]

\* Pipeline.fit, the feature creator's step after fit(X, y) returned f.self:
\* TransformerMixin.fit_transform goes on with .transform(X), which returned t.
rff_step_transform(st, f, t) ==
    [st EXCEPT !.fc = t.self, !.rng = f.rng, !.X = t.out, !.raise = t.raise,
               !.ran = Append(Append(@, "rff.fit"), "rff.transform")]

\* Pipeline.fit, the feature creator's step: fit(X, y), then transform(X) when
\* fit did not raise.  The feature creator is the caller's object, not a copy.
rff_step(st, f) ==
    IF f.raise # None
    THEN [st EXCEPT !.fc = f.self, !.rng = f.rng, !.X = None, !.raise = f.raise,
                    !.ran = Append(@, "rff.fit")]
    ELSE rff_step_transform(st, f, FeatureCreator_transform(f.self, st.X))

\* One intermediate step of sklearn's Pipeline.fit: the step's fit_transform.
fit_transform_one(name, st) ==
    IF name = "pca"
    THEN pca_step(st, PCA_fit_transform(st.pca, st.X))
    ELSE rff_step(st, FeatureCreator_fit(st.fc, st.X, st.rng))

\* The second intermediate step, when the list has one and the first did not raise.
fit_second(steps, s1) ==
    IF Len(steps) >= 3 /\ s1.raise = None
    THEN fit_transform_one(steps[2], s1)
    ELSE s1

\* The intermediate steps of Pipeline.fit (all but the last of the list, which
\* RFFPipeline.fit builds with at most two of them), in list order, up to the
\* first failure.
fit_steps(steps, st) ==
    fit_second(steps, IF Len(steps) >= 2 THEN fit_transform_one(steps[1], st)
                      ELSE st)

\* Pipeline.fit after the final estimator's fit(Z, y) returned c.
final_step(st, c) ==
    [pca |-> st.pca, fc |-> st.fc, clf |-> c.self, rng |-> st.rng,
     raise |-> c.raise, ran |-> Append(st.ran, "classifier.fit")]

\* Pipeline.fit after the intermediate steps: the final estimator is fitted on
\* their output unless one of them raised.
final_fit(clf, y, st) ==
    IF st.raise # None
    THEN [pca |-> st.pca, fc |-> st.fc, clf |-> clf, rng |-> st.rng,
          raise |-> st.raise, ran |-> st.ran]
    ELSE final_step(st, Classifier_fit(clf, st.X, y))

\* Pipeline(steps).fit(X, y): the intermediate steps, then the final estimator's fit.
Pipeline_fit(steps, pca, fc, clf, X, y, g) ==
    final_fit(clf, y,
              fit_steps(steps, [X |-> X, pca |-> pca, fc |-> fc, rng |-> g,
                                raise |-> None, ran |-> << >>]))

\* Pipeline.predict, the PCA step.
pca_transform_step(st, r) ==
    [st EXCEPT !.X = r.out, !.raise = r.raise, !.ran = Append(@, "pca")]

\* Pipeline.predict, the feature creator's step.
rff_transform_step(st, t) ==
    [st EXCEPT !.fc = t.self, !.X = t.out, !.raise = t.raise,
               !.ran = Append(@, "rff")]

\* One intermediate step of Pipeline.predict / predict_proba: the step's transform.
transform_one(name, pl, st) ==
    IF name = "pca"
    THEN pca_transform_step(st, PCA_transform(pl.pca, st.X))
    ELSE rff_transform_step(st, FeatureCreator_transform(st.fc, st.X))

transform_second(pl, s1) ==
    IF Len(pl.steps) >= 3 /\ s1.raise = None
    THEN transform_one(pl.steps[2], pl, s1)
    ELSE s1

\* The intermediate steps of Pipeline.predict / predict_proba, in list order, up
\* to the first failure.
transform_steps(pl, st) ==
    transform_second(pl, IF Len(pl.steps) >= 2
                         THEN transform_one(pl.steps[1], pl, st)
                         ELSE st)

\* Pipeline.predict after the final estimator's predict returned c.
final_predict_step(st, c) ==
    [fc |-> st.fc, raise |-> c.raise, out |-> c.out,
     ran |-> Append(st.ran, "classifier")]

final_predict(clf, method, st) ==
    IF st.raise # None
    THEN [fc |-> st.fc, raise |-> st.raise, out |-> None, ran |-> st.ran]
    ELSE final_predict_step(st, Classifier_predict(clf, st.X, method))

\* Pipeline.predict(X) / Pipeline.predict_proba(X).
Pipeline_predict(pl, fc, clf, X, method) ==
    final_predict(clf, method,
                  transform_steps(pl, [X |-> X, fc |-> fc, raise |-> None,
                                       ran |-> << >>]))

\* ---------------------------------------------------------------- RFFPipeline

\* RFFPipeline.__init__.
RFFPipeline_init(a) ==
    [n_features |-> a.n_features,
     new_dim |-> a.new_dim,
     use_PCA |-> a.use_PCA,
     classifier |-> Classifier_init,
     feature_creator |-> FeatureCreator_init(a.feature_creator_class,
                                             a.n_features, a.new_dim),
     pipeline |-> None]

\* pipeline_steps with the feature creator appended before the reducer.
pipeline_steps_swapped(use_PCA) ==
    <<"rff">> \o (IF use_PCA THEN <<"pca">> ELSE << >>) \o <<"classifier">>

\* The list pipeline_steps built by RFFPipeline.fit.
pipeline_steps(use_PCA) ==
    (IF use_PCA THEN <<"pca">> ELSE << >>) \o <<"rff">> \o <<"classifier">>

\* self.new_dim = min(X.shape[1], self.new_dim) under use_PCA.
clamp_new_dim(self, X) ==
    IF self.use_PCA THEN Min(X.cols, self.new_dim) ELSE self.new_dim

\* self.pipeline assigned the Pipeline before its fit is run.
assign_pipeline_eager(self, steps, run) ==
    [self |-> [self EXCEPT !.feature_creator = run.fc,
                           !.classifier = run.clf,
                           !.pipeline = [steps |-> steps, pca |-> run.pca]],
     rng |-> run.rng, raise |-> run.raise, ran |-> run.ran]

\* self.pipeline = Pipeline(pipeline_steps).fit(X, y): the assignment happens only
\* when fit returns; the feature creator and the classifier, objects of self
\* that the Pipeline fits in place, keep what fit did to them either way.
assign_pipeline(self, steps, run) ==
    [self |-> IF run.raise # None
              THEN [self EXCEPT !.feature_creator = run.fc,
                                !.classifier = run.clf]
              ELSE [self EXCEPT !.feature_creator = run.fc,
                                !.classifier = run.clf,
                                !.pipeline = [steps |-> steps, pca |-> run.pca]],
     rng |-> run.rng, raise |-> run.raise, ran |-> run.ran]

\* RFFPipeline.fit after the clamp of self.new_dim.
fit_clamped(self, X, y, g) ==
    assign_pipeline(self, pipeline_steps(self.use_PCA),
                    Pipeline_fit(pipeline_steps(self.use_PCA),
                                 IF self.use_PCA THEN PCA_init(self.new_dim)
                                 ELSE None,
                                 self.feature_creator, self.classifier, X, y, g))

\* RFFPipeline.fit.
RFFPipeline_fit(self, X, y, g) ==
    fit_clamped([self EXCEPT !.new_dim = clamp_new_dim(self, X)], X, y, g)

\* The return of self.pipeline.<method>(X).
predict_return(self, r) ==
    [self |-> [self EXCEPT !.feature_creator = r.fc],
     raise |-> r.raise, out |-> r.out, ran |-> r.ran]

\* RFFPipeline.predict / RFFPipeline.predict_proba: self.pipeline.<method>(X).
RFFPipeline_predict(self, X, method) ==
    IF self.pipeline = None
    THEN [self |-> self, raise |-> Raise("AttributeError", "pipeline." \o method),
          out |-> None, ran |-> << >>]
    ELSE predict_return(self, Pipeline_predict(self.pipeline, self.feature_creator,
                                               self.classifier, X, method))

\* ------------------------------------------------------------------ behaviour

Call(op, X, y, raise, out, ran) ==
    [op |-> op, X |-> X, y |-> y, raise |-> raise, out |-> out, ran |-> ran]

Has(seq, x) == \E i \in DOMAIN seq : seq[i] = x

\* The history of the feature creator's fit calls after one more call.
Fitted(history, called, returned) ==
    IF returned THEN "returned"
    ELSE IF called /\ history = "never" THEN "raised"
    ELSE history

Init ==
    /\ args \in [n_features : 1..MaxFeatures, new_dim : 1..MaxDim,
                 use_PCA : BOOLEAN, feature_creator_class : Classes]
    /\ obj = RFFPipeline_init(args)
    /\ rng = 0
    /\ result = Call("__init__", None, 0, None, None, << >>)
    /\ last_fit = None
    /\ creator_fit = "never"
    /\ before = obj

\* obj.fit(X, y)
Fit ==
    \E X \in Matrices : \E y \in Labels(X) :
        /\ rng + 4 <= MaxRng
        /\ \E r \in {RFFPipeline_fit(obj, X, y, rng)} :
              /\ obj' = r.self
              /\ rng' = r.rng
              /\ result' = Call("fit", X, y, r.raise, None, r.ran)
              /\ last_fit' = IF r.raise = None THEN [use_PCA |-> obj.use_PCA]
                             ELSE last_fit
              /\ creator_fit' = Fitted(creator_fit, Has(r.ran, "rff.fit"),
                                       Has(r.ran, "rff.transform"))
        /\ before' = obj
        /\ UNCHANGED args

\* obj.predict(X), obj.predict_proba(X)
Predict ==
    \E X \in Queries : \E method \in {"predict", "predict_proba"} :
        /\ \E r \in {RFFPipeline_predict(obj, X, method)} :
              /\ obj' = r.self
              /\ result' = Call(method, X, 0, r.raise, r.out, r.ran)
        /\ before' = obj
        /\ UNCHANGED <<args, rng, last_fit, creator_fit>>

\* obj.feature_creator.fit(X): a feature creator fitted directly.
CreatorFit ==
    \E X \in Matrices :
        /\ rng + 4 <= MaxRng
        /\ \E r \in {FeatureCreator_fit(obj.feature_creator, X, rng)} :
              /\ obj' = [obj EXCEPT !.feature_creator = r.self]
              /\ rng' = r.rng
              /\ result' = Call("creator.fit", X, 0, r.raise, None, <<"rff.fit">>)
              /\ creator_fit' = Fitted(creator_fit, TRUE, r.raise = None)
        /\ before' = obj
        /\ UNCHANGED <<args, last_fit>>

\* obj.feature_creator.transform(X): a feature creator applied directly.
CreatorTransform ==
    \E X \in Queries :
        /\ \E r \in {FeatureCreator_transform(obj.feature_creator, X)} :
              /\ obj' = [obj EXCEPT !.feature_creator = r.self]
              /\ result' = Call("creator.transform", X, 0, r.raise, r.out,
                                <<"rff.transform">>)
        /\ before' = obj
        /\ UNCHANGED <<args, rng, last_fit, creator_fit>>

\* obj.use_PCA = flag: the flag is a public attribute of the instance.
SetUsePCA ==
    \E flag \in BOOLEAN :
        /\ obj' = [obj EXCEPT !.use_PCA = flag]
        /\ UNCHANGED <<args, rng, result, last_fit, creator_fit, before>>

Next == Fit \/ Predict \/ CreatorFit \/ CreatorTransform \/ SetUsePCA

Spec == Init /\ [][Next]_vars

\* -------------------------------------------------------------------- claims

Predicts == {"predict", "predict_proba"}

creator == obj.feature_creator

IsRFF == creator.cls # "FeatureCreatorPlaceholder"

\* The failure of predict / predict_proba / transform before fit: the attribute
\* access on the unset pipeline or the unset w.
NotFitted(e) ==
    e.type = "AttributeError" /\ e.at \in {"pipeline.predict",
                                           "pipeline.predict_proba", "w.T"}

\* The failure of the subsample: np.random.choice asked for more rows than X has.
InsufficientData == Raise("ValueError", "choice")

\* The failure of X @ self.w.T on a column count other than w's.
DimensionMismatch == Raise("ValueError", "matmul")

\* C1: while no RFFPipeline.fit has completed, every predict and predict_proba
\* call fails with the not-fitted error and returns nothing, whatever the variant,
\* the input and the fits that failed before.
C1_PredictBeforeFitFails ==
    (result.op \in Predicts /\ last_fit = None) =>
        /\ result.raise # None
        /\ NotFitted(result.raise)
        /\ result.out = None

\* A predict on a pipeline whose only fit failed after the feature creator was fitted.
C1_Witness ==
    /\ result.op \in Predicts
    /\ last_fit = None
    /\ creator_fit = "returned"
    /\ result.raise = Raise("AttributeError", "pipeline." \o result.op)

\* C2 as claimed: transform on a feature creator whose fit was never called fails
\* with the not-fitted error and returns no matrix, for every variant.
C2_TransformBeforeFitFails ==
    (result.op = "creator.transform" /\ creator_fit = "never") =>
        /\ result.raise # None
        /\ NotFitted(result.raise)
        /\ result.out = None

\* C2 as amended: before any fit call, transform of RandomFeatureCreator and of
\* OrthogonalRandomFeatureCreator fails with the not-fitted error and returns no
\* matrix, and transform of FeatureCreatorPlaceholder returns X unchanged.
C2_TransformBeforeFit ==
    (result.op = "creator.transform" /\ creator_fit = "never") =>
        IF IsRFF
        THEN /\ result.raise # None
             /\ NotFitted(result.raise)
             /\ result.out = None
        ELSE /\ result.raise = None
             /\ result.out = result.X

\* A random-feature creator's transform called before any fit, failing.
C2_Witness ==
    /\ result.op = "creator.transform"
    /\ creator_fit = "never"
    /\ before = obj
    /\ IsRFF
    /\ result.raise = Raise("AttributeError", "w.T")

\* C4 as claimed: a fit of a random-feature creator, direct or through
\* RFFPipeline.fit, fails with the insufficient-data error on fewer than 1000 rows
\* and never raises it on 1000 rows or more.
C4_FitNeedsSampleSize ==
    (result.op \in {"fit", "creator.fit"} /\ IsRFF) =>
        IF result.X.rows < SampleSize
        THEN result.raise = InsufficientData
        ELSE result.raise # InsufficientData

\* C4 as amended: a direct fit of a random-feature creator fails with the
\* insufficient-data error on fewer than 1000 rows; RFFPipeline.fit with such a
\* creator fails on fewer than 1000 rows too, with the insufficient-data error
\* when the feature creator's fit is reached and with the reducer's own error
\* when the reducer rejects X first; on 1000 rows or more neither raises the
\* insufficient-data error.
C4_FitNeedsSampleSizeAmended ==
    (result.op \in {"fit", "creator.fit"} /\ IsRFF) =>
        IF result.X.rows < SampleSize
        THEN IF Has(result.ran, "rff.fit")
             THEN result.raise = InsufficientData
             ELSE /\ result.op = "fit"
                  /\ result.ran = <<"pca.fit_transform">>
                  /\ result.raise = Raise("ValueError", "PCA.fit")
        ELSE result.raise # InsufficientData

\* RFFPipeline.fit on 999 rows failing in the feature creator's subsample, after
\* the reducer accepted X.
C4_Witness ==
    /\ result.op = "fit"
    /\ IsRFF
    /\ result.X.rows = SampleSize - 1
    /\ result.ran = <<"pca.fit_transform", "rff.fit">>
    /\ result.raise = InsufficientData

\* C5: transform of a random-feature creator whose fit has returned fails with the
\* dimension-mismatch error when X's column count differs from new_dim, and
\* returns an n_samples x n_features matrix when it is equal.
C5_TransformChecksColumns ==
    (result.op = "creator.transform" /\ IsRFF /\ creator_fit = "returned") =>
        IF result.X.cols # creator.new_dim
        THEN /\ result.raise = DimensionMismatch
             /\ result.out = None
        ELSE /\ result.raise = None
             /\ result.out.rows = result.X.rows
             /\ result.out.cols = creator.n_features

\* A fitted random-feature creator refusing an X of another column count.
C5_Witness ==
    /\ result.op = "creator.transform"
    /\ IsRFF
    /\ creator_fit = "returned"
    /\ result.X.cols # creator.new_dim
    /\ result.raise = DimensionMismatch

\* The stage order for a fit run with the given use_PCA flag.
StageOrder(flag) ==
    IF flag THEN <<"pca", "rff", "classifier">> ELSE <<"rff", "classifier">>

\* C7: the stage list of a fitted pipeline is [reducer iff reduction was enabled
\* at the fit, feature creator, classifier], and predict / predict_proba run that
\* list in order (all of it when they return, a prefix when a stage raises),
\* whatever the use_PCA flag is now.
C7_StageOrderFixed ==
    obj.pipeline # None =>
        /\ last_fit # None
        /\ obj.pipeline.steps = StageOrder(last_fit.use_PCA)
        /\ (obj.pipeline.pca # None) = last_fit.use_PCA
        /\ result.op \in Predicts =>
              /\ Len(result.ran) <= Len(obj.pipeline.steps)
              /\ result.ran = SubSeq(obj.pipeline.steps, 1, Len(result.ran))
              /\ result.raise = None => result.ran = obj.pipeline.steps

\* A predict through the reducer after the flag was switched off on the instance.
C7_Witness ==
    /\ obj.pipeline # None
    /\ result.op \in Predicts
    /\ result.raise = None
    /\ last_fit = [use_PCA |-> TRUE]
    /\ ~obj.use_PCA
    /\ result.ran = <<"pca", "rff", "classifier">>

\* C9: once the feature creator's fit has returned, transform on the creator and
\* predict / predict_proba on the pipeline leave w, b, n_features and new_dim as
\* they are, and a transform repeated on the same X returns the same output.
C9_TransformReadsOnly ==
    [][(creator_fit = "returned"
        /\ result'.op \in Predicts \cup {"creator.transform"}) =>
          /\ obj'.feature_creator = obj.feature_creator
          /\ obj'.new_dim = obj.new_dim
          /\ obj'.n_features = obj.n_features
          /\ (result.op = "creator.transform" /\ result'.op = "creator.transform"
              /\ result'.X = result.X) => result' = result]_vars

\* A fitted random-feature creator's transform that returned a matrix computed
\* from the w and b it holds.
C9_Witness ==
    /\ result.op = "creator.transform"
    /\ IsRFF
    /\ creator_fit = "returned"
    /\ result.raise = None
    /\ result.out.w = creator.w
    /\ result.out.b = creator.b

\* The configuration and learned stage shapes of a pipeline: target
\* dimensionality, reducer (components kept, columns fitted on), shape of w.
Shapes(o) ==
    [new_dim |-> o.new_dim,
     reducer |-> IF o.pipeline = None THEN None ELSE o.pipeline.pca,
     w |-> IF o.feature_creator.w = None THEN None
           ELSE [rows |-> o.feature_creator.w.rows,
                 cols |-> o.feature_creator.w.cols]]

\* A newly constructed pipeline with the same constructor arguments after a
\* single fit(X, y).
FreshFit(X, y) == RFFPipeline_fit(RFFPipeline_init(args), X, y, 0).self

\* C3: with reduction enabled at construction and at the fit, a fit that returns
\* on a pipeline already fitted leaves the target dimensionality, the reducer's
\* dimensions and w's shape equal to those of a newly constructed pipeline fitted
\* once on the same (X, y).
C3_RefitEqualsFreshFit ==
    (/\ result.op = "fit"
     /\ result.raise = None
     /\ before.pipeline # None
     /\ args.use_PCA
     /\ last_fit = [use_PCA |-> TRUE]) =>
        Shapes(obj) = Shapes(FreshFit(result.X, result.y))

\* C6: a fit of a random-feature creator on the data it was last fitted on (the
\* one process-wide seed being the only seed there is) draws the same subsample
\* and computes the same sigma as that earlier fit.
C6_SigmaDeterministic ==
    (/\ result.op \in {"fit", "creator.fit"}
     /\ IsRFF
     /\ before.feature_creator.w # None
     /\ creator.w # None
     /\ creator.w # before.feature_creator.w
     /\ creator.w.sigma.X = before.feature_creator.w.sigma.X) =>
        creator.w.sigma = before.feature_creator.w.sigma

\* C8: when RFFPipeline.fit runs the reducer and then the feature creator's fit,
\* the w built has min(input_dim, configured target) columns, the column count of
\* the reducer's output, and the transform that follows does not fail on shapes.
C8_WMatchesReducerOutput ==
    (/\ result.op = "fit"
     /\ IsRFF
     /\ Has(result.ran, "pca.fit_transform")
     /\ Has(result.ran, "rff.transform")) =>
        /\ creator.w.cols = Min(result.X.cols, args.new_dim)
        /\ result.raise # DimensionMismatch

\* What predict and predict_proba read: the fitted Pipeline (stage list and
\* reducer), the feature creator's w and b, the classifier.
PredictState(o) ==
    [pipeline |-> o.pipeline, w |-> o.feature_creator.w,
     b |-> o.feature_creator.b, classifier |-> o.classifier]

\* C10: an RFFPipeline.fit that fails leaves what predict and predict_proba read
\* as it was: the last successful fit's on a fitted pipeline, nothing (no
\* pipeline) on an unfitted one.
C10_FailedFitLeavesState ==
    (result.op = "fit" /\ result.raise # None) =>
        IF before.pipeline = None
        THEN obj.pipeline = None
        ELSE PredictState(obj) = PredictState(before)

====
